---- MODULE Spec2Model ----
(***************************************************************************)
(* Model of pulp's FileDownloader.run (plugin/pulpcore/plugin/download/    *)
(* file.py) and of the RepoSyncConduit (server/pulp/plugins/conduits/      *)
(* repo_sync.py).                                                          *)
(*                                                                         *)
(* A file is represented by its length; the byte at offset i of a file is  *)
(* identified by i, so a chunk is the range <<offset, length>> and a       *)
(* sequence of chunks is correct exactly when its ranges tile [0, length). *)
(***************************************************************************)
EXTENDS Integers, Sequences, FiniteSets, TLC

VARIABLES dl,        \* the FileDownloader instance and the progress of its run()
          fs,        \* the filesystem: absolute path -> file
          cwd,       \* the process's current working directory
          conduit,   \* the RepoSyncConduit instance's counters
          assoc,     \* association manager: units associated by this importer
          th,        \* the importer's threads calling into the conduit
          report,    \* the SyncReport built last, with the counters it was built from
          hist,      \* what the calls into the conduit have done so far
          dl2,       \* a second FileDownloader instance, run concurrently with dl
          data       \* a call of Repository.from_repo: its argument and its result

vars == <<dl, fs, cwd, conduit, assoc, th, report, hist, dl2, data>>
dlvars == <<dl, fs, cwd>>
cvars == <<conduit, assoc, th, report, hist>>
xvars == <<dl2, data>>

\* Python's None is the empty sequence, a present value x is <<x>>
NoneV == <<>>

Some(x) == <<x>>

(***************************************************************************)
(* Bounds                                                                  *)
(***************************************************************************)
MaxChunks == 3          \* files hold up to MaxChunks full chunks
NumThreads == 2         \* importer threads sharing one conduit
MaxCalls == 4           \* calls made into the conduit, all threads together
MaxLate == 2            \* calls a caller makes on the validator after run() ended

(***************************************************************************)
(* Program constants                                                       *)
(***************************************************************************)
ChunkSize == 1048576    \* f_handle.read(1048576)

Min(a, b) == IF a < b THEN a ELSE b

CeilDiv(n, c) == (n + c - 1) \div c

Remainders == {0, 1, 402848}

FileSizes == {k * ChunkSize + r : k \in 0..(MaxChunks - 1), r \in Remainders}
                \cup {MaxChunks * ChunkSize}

Algs == {"md5", "sha256"}

(***************************************************************************)
(* urlparse / os.path                                                      *)
(* A path is [abs, parts]: whether it starts at the root, and its          *)
(* components in order.                                                    *)
(***************************************************************************)
Urls == {"file:///tmp/a", "file://host/tmp/a", "file://a.txt",
         "file:///tmp/../etc/./b"}

Cwds == {<<"srv">>, <<"var", "lib">>}

urlparse(url) ==
    CASE url = "file:///tmp/a" ->
            [netloc |-> "", path |-> [abs |-> TRUE, parts |-> <<"tmp", "a">>]]
      [] url = "file://host/tmp/a" ->
            [netloc |-> "host", path |-> [abs |-> TRUE, parts |-> <<"tmp", "a">>]]
      [] url = "file://a.txt" ->
            [netloc |-> "a.txt", path |-> [abs |-> FALSE, parts |-> <<>>]]
      [] url = "file:///tmp/../etc/./b" ->
            [netloc |-> "",
             path |-> [abs |-> TRUE, parts |-> <<"tmp", "..", "etc", ".", "b">>]]

\* os.path.join(netloc, path): an absolute second argument discards the first
join(netloc, p) ==
    IF p.abs THEN p
    ELSE IF netloc = "" THEN p
    ELSE [abs |-> FALSE, parts |-> <<netloc>> \o p.parts]

RECURSIVE normparts(_, _)
normparts(parts, acc) ==
    IF parts = <<>> THEN acc
    ELSE LET c == Head(parts) IN
         IF c = "." \/ c = "" THEN normparts(Tail(parts), acc)
         ELSE IF c = ".."
              THEN normparts(Tail(parts),
                             IF acc = <<>> THEN acc ELSE SubSeq(acc, 1, Len(acc) - 1))
              ELSE normparts(Tail(parts), Append(acc, c))

\* os.path.abspath(p) evaluated while the working directory is c
abspath(p, c) ==
    [abs |-> TRUE, parts |-> normparts(IF p.abs THEN p.parts ELSE c \o p.parts, <<>>)]

\* the file a url names for a process whose working directory is c
Locate(u, c) == abspath(join(urlparse(u).netloc, urlparse(u).path), c)

Paths == {Locate(u, c) : u \in Urls, c \in Cwds}

MissingFile == [exists |-> FALSE, readable |-> FALSE, size |-> 0]

(***************************************************************************)
(* Validator and result (pulpcore.plugin.download.base)                    *)
(***************************************************************************)
RECURSIVE Total(_)
Total(chunks) == IF chunks = <<>> THEN 0 ELSE chunks[1][2] + Total(Tail(chunks))

\* the chunks are the ranges [0,a), [a,b), ... in order
Contiguous(chunks) ==
    \A i \in 1..Len(chunks) : chunks[i][1] = Total(SubSeq(chunks, 1, i - 1))

\* digest of the bytes ingested: chunking does not matter, content does
Digest(alg, chunks) ==
    IF Contiguous(chunks) THEN <<alg, "bytes", <<<<0, Total(chunks)>>>>>>
    ELSE <<alg, "bytes", chunks>>

BogusDigest(alg) == <<alg, "bogus", <<>>>>

\* mutant: the digests are compared only when the size matched
validate_size_first(expected_size, expected_digests, size, digests) ==
    IF expected_size # NoneV /\ expected_size # Some(size) THEN {"size"}
    ELSE {a \in Algs : expected_digests[a] # NoneV
                        /\ expected_digests[a] # Some(digests[a])}

\* ExpectationSet.validate: every declared expectation is compared; the
\* result is the set of mismatched properties ("size" or an algorithm name)
validate(expected_size, expected_digests, size, digests) ==
    {p \in {"size"} : expected_size # NoneV /\ expected_size # Some(size)}
    \cup {a \in Algs : expected_digests[a] # NoneV
                        /\ expected_digests[a] # Some(digests[a])}

\* BaseDownloader.artifact_attributes: size and digests of what was ingested
artifact_attributes(s) ==
    [size |-> s.size, digests |-> [a \in Algs |-> Digest(a, s.fed)]]

\* BaseDownloader.handle_data(chunk): StreamValidator.ingest
handle_data(s, off, len) ==
    LET t == [s EXCEPT !.hd_calls = @ + 1,
                       !.hd_empty = IF len = 0 THEN @ + 1 ELSE @]
    IN IF t.vstate # "Open"
       THEN [t EXCEPT !.invalid_state = TRUE]
       ELSE IF len = 0 THEN t
       ELSE [t EXCEPT !.fed = Append(@, <<off, len>>), !.size = @ + len]

\* mutant: finalize() validates again whenever it is called
finalize_again(s) ==
    LET m == validate(s.expected_size, s.expected_digests, s.size,
                      artifact_attributes(s).digests)
    IN [s EXCEPT !.finalize_calls = @ + 1,
                 !.fed_at_finalize = Len(s.fed),
                 !.mismatches = m,
                 !.vstate = IF m = {} THEN "Finalized" ELSE "Failed"]

\* BaseDownloader.finalize(): StreamValidator.finalize
finalize(s) ==
    IF s.vstate # "Open"
    THEN [s EXCEPT !.invalid_state = TRUE, !.finalize_calls = @ + 1]
    ELSE LET m == validate(s.expected_size, s.expected_digests, s.size,
                           artifact_attributes(s).digests)
         IN [s EXCEPT !.finalize_calls = @ + 1,
                      !.fed_at_finalize = Len(s.fed),
                      !.mismatches = m,
                      !.vstate = IF m = {} THEN "Finalized" ELSE "Failed"]

DownloadResult(path, attrs, url, exception) ==
    [path |-> path, artifact_attributes |-> attrs, url |-> url, exception |-> exception]

\* ExceptionContext.wrap: annotate the error with the source identifier
attach_url_to_exception(url, kind) == [kind |-> kind, url |-> url, filename |-> NoneV]

(***************************************************************************)
(* FileDownloader                                                          *)
(***************************************************************************)
FileDownloader_fields(url, path, expected_size, expected_digests, c) ==
    [url |-> url,
     path |-> path,
     constructed_in |-> c,
     expected_size |-> expected_size,
     expected_digests |-> expected_digests,
     pc |-> "created",
     handle |-> "none",
     opened |-> NoneV,
     offset |-> 0,
     reads |-> <<>>,
     fed |-> <<>>,
     size |-> 0,
     vstate |-> "Open",
     mismatches |-> {},
     invalid_state |-> FALSE,
     finalize_calls |-> 0,
     fed_at_finalize |-> 0,
     exhausted |-> FALSE,
     results |-> <<>>,
     error |-> NoneV,
     raised |-> <<>>,
     hd_calls |-> 0,
     hd_empty |-> 0,
     late |-> NoneV,
     late_calls |-> 0]

\* mutant: the path is joined but not made absolute
FileDownloader_init_relative(url, expected_size, expected_digests, c) ==
    LET p == urlparse(url) IN
    FileDownloader_fields(url, join(p.netloc, p.path),
                          expected_size, expected_digests, c)

\* self._path = os.path.abspath(os.path.join(p.netloc, p.path))
FileDownloader_init(url, expected_size, expected_digests, c) ==
    LET p == urlparse(url) IN
    FileDownloader_fields(url, abspath(join(p.netloc, p.path), c),
                          expected_size, expected_digests, c)

\* mutant: the handle stays open when the block is left
aexit_leak(s) == s

\* leaving the "async with aiofiles.open(...)" block closes the handle
aexit(s) == IF s.handle = "open" THEN [s EXCEPT !.handle = "closed"] ELSE s

\* mutant: run() is not decorated, the exception leaves it as raised
run_raise_bare(s, kind) ==
    [aexit(s) EXCEPT !.pc = "raised",
                     !.raised = Append(@, kind),
                     !.error = Some([kind |-> kind, url |-> "", filename |-> NoneV])]

\* an exception of the given kind leaves run(): the with-block is left and
\* the decorator annotates the exception before it reaches the caller
run_raise(s, kind) ==
    [aexit(s) EXCEPT !.pc = "raised",
                     !.raised = Append(@, kind),
                     !.error = Some(attach_url_to_exception(s.url, kind))]

\* the OSError of a failed open names the path that was passed to open
run_raise_oserror(s, kind) ==
    LET t == run_raise(s, kind) IN
    [t EXCEPT !.error = Some([t.error[1] EXCEPT !.filename = Some(s.path)])]

\* mutant: the file is opened in a mode that creates it when it is missing
run_open_creates(s, files, c) ==
    LET p == abspath(s.path, c)
        f == IF p \in DOMAIN files THEN files[p] ELSE MissingFile
    IN IF f.exists /\ ~f.readable THEN run_raise_oserror(s, "PermissionError")
       ELSE [s EXCEPT !.pc = "reading", !.handle = "open", !.opened = Some(p),
                      !.offset = 0]

\* aiofiles.open(self._path, 'rb'); a relative path is resolved by the OS
\* against the working directory at the time of the call
run_open(s, files, c) ==
    LET p == abspath(s.path, c)
        f == IF p \in DOMAIN files THEN files[p] ELSE MissingFile
    IN IF ~f.exists THEN run_raise_oserror(s, "NotFoundError")
       ELSE IF ~f.readable THEN run_raise_oserror(s, "PermissionError")
       ELSE [s EXCEPT !.pc = "reading", !.handle = "open", !.opened = Some(p),
                      !.offset = 0]

\* f_handle.read(n): up to n bytes from the current position
f_handle_read(s, files, n) == Min(n, files[s.opened[1]].size - s.offset)

\* mutant: read() without a size returns the rest of the file
run_read_all(s, files) == files[s.opened[1]].size - s.offset

\* chunk = await f_handle.read(1048576)
run_read(s, files) == f_handle_read(s, files, ChunkSize)

\* mutant: a failed validation is packaged into a returned DownloadResult
run_exhausted_returns_error(s) ==
    LET t == finalize([s EXCEPT !.exhausted = TRUE]) IN
    [aexit(t) EXCEPT
        !.pc = "done",
        !.results = Append(@, DownloadResult(t.path, artifact_attributes(t), t.url,
                                 IF t.vstate = "Failed"
                                 THEN Some(attach_url_to_exception(
                                              t.url, "ValidationMismatchError"))
                                 ELSE NoneV))]

\* "if not chunk: self.finalize(); break" and the return after the loop
run_exhausted(s) ==
    LET t == finalize([s EXCEPT !.exhausted = TRUE]) IN
    IF t.vstate = "Failed" \/ t.invalid_state
    THEN run_raise(t, IF t.invalid_state THEN "InvalidStateError"
                      ELSE "ValidationMismatchError")
    ELSE [aexit(t) EXCEPT
            !.pc = "done",
            !.results = Append(@, DownloadResult(t.path, artifact_attributes(t),
                                                 t.url, NoneV))]

\* mutant: the loop is left on an empty chunk without finalize()
run_loop_body_no_finalize(s, off, len, fault) ==
    IF len = 0
    THEN [aexit(s) EXCEPT
            !.exhausted = TRUE,
            !.pc = "done",
            !.results = Append(@, DownloadResult(s.path, artifact_attributes(s),
                                                 s.url, NoneV))]
    ELSE IF fault = "handle_data" THEN run_raise(s, "IOError")
    ELSE handle_data(s, off, len)

\* mutant: the chunk is passed to handle_data before it is tested
run_loop_body_ingest_first(s, off, len, fault) ==
    IF fault = "handle_data" /\ len > 0 THEN run_raise(s, "IOError")
    ELSE LET t == handle_data(s, off, len) IN
         IF t.invalid_state THEN run_raise(t, "InvalidStateError")
         ELSE IF len = 0 THEN run_exhausted(t)
         ELSE t

\* the body of the while loop after a read returned len bytes at offset off
run_loop_body(s, off, len, fault) ==
    IF len = 0 THEN run_exhausted(s)
    ELSE IF fault = "handle_data" THEN run_raise(s, "IOError")
    ELSE LET t == handle_data(s, off, len) IN
         IF t.invalid_state THEN run_raise(t, "InvalidStateError") ELSE t

\* mutant: a short chunk is taken for the end of the file and dropped
run_iteration_short_is_end(s, files, fault) ==
    IF fault = "read" THEN run_raise(s, "IOError")
    ELSE LET len == run_read(s, files)
             t == [s EXCEPT !.reads = Append(@, len), !.offset = @ + len]
         IN run_loop_body(t, s.offset, IF len < ChunkSize THEN 0 ELSE len, fault)

\* one iteration of the loop: the awaited read completes, the body runs up
\* to the next await
run_iteration(s, files, fault) ==
    IF fault = "read" THEN run_raise(s, "IOError")
    ELSE LET len == run_read(s, files)
             t == [s EXCEPT !.reads = Append(@, len), !.offset = @ + len]
         IN run_loop_body(t, s.offset, len, fault)

\* CancelledError is thrown into the coroutine at the suspended read
run_cancel(s) == [aexit(s) EXCEPT !.pc = "cancelled"]

(***************************************************************************)
(* Downloader actions                                                      *)
(***************************************************************************)
Faults == {"none", "read", "handle_data"}

ExpectedSizes(n) == {NoneV, Some(n), Some(n + 1)}

ExpectedDigests(n) ==
    [Algs -> {NoneV}] \cup
    {[a \in Algs |-> IF a \in W THEN Some(BogusDigest(a))
                     ELSE Some(<<a, "bytes", <<<<0, n>>>>>>)] : W \in SUBSET Algs}
    \cup {[a \in Algs |-> IF a = w THEN Some(BogusDigest(a)) ELSE NoneV] : w \in Algs}

InitDownloader ==
    /\ cwd \in Cwds
    /\ \E u \in Urls, n \in FileSizes, st \in {"file", "missing", "denied"} :
         \E es \in ExpectedSizes(n), ed \in ExpectedDigests(n) :
            /\ dl = FileDownloader_init(u, es, ed, cwd)
            /\ fs = [p \in Paths |->
                        IF p = Locate(u, cwd) /\ st # "missing"
                        THEN [exists |-> TRUE, readable |-> st = "file", size |-> n]
                        ELSE MissingFile]

Start ==
    /\ dl.pc = "created"
    /\ dl' = [dl EXCEPT !.pc = "opening"]
    /\ UNCHANGED <<fs, cwd, cvars, xvars>>

Open ==
    /\ dl.pc = "opening"
    /\ dl' = run_open(dl, fs, cwd)
    /\ UNCHANGED <<fs, cwd, cvars, xvars>>

Iterate ==
    /\ dl.pc = "reading"
    /\ \E fault \in Faults : dl' = run_iteration(dl, fs, fault)
    /\ UNCHANGED <<fs, cwd, cvars, xvars>>

Cancel ==
    /\ dl.pc = "reading"
    /\ dl' = run_cancel(dl)
    /\ UNCHANGED <<fs, cwd, cvars, xvars>>

Chdir ==
    /\ dl.pc \in {"created", "opening", "reading"}
    /\ \E c \in Cwds \ {cwd} : cwd' = c
    /\ UNCHANGED <<dl, fs, cvars, xvars>>

NextDownload == Start \/ Open \/ Iterate \/ Cancel \/ Chdir

(***************************************************************************)
(* Calls made on the downloader's validator by its caller once run() has   *)
(* ended                                                                   *)
(***************************************************************************)
Outcome(t) ==
    IF t.invalid_state THEN "InvalidStateError"
    ELSE IF t.vstate = "Failed" THEN "ValidationMismatchError"
    ELSE "returned"

call_finalize(s) ==
    LET t == finalize([s EXCEPT !.invalid_state = FALSE]) IN
    [t EXCEPT !.late = Some([op |-> "finalize", len |-> 0, outcome |-> Outcome(t)]),
              !.late_calls = @ + 1]

call_handle_data(s, len) ==
    LET t == handle_data([s EXCEPT !.invalid_state = FALSE], s.size, len) IN
    [t EXCEPT !.late = Some([op |-> "handle_data", len |-> len,
                             outcome |-> IF t.invalid_state THEN "InvalidStateError"
                                         ELSE "returned"]),
              !.late_calls = @ + 1]

CanCallLate == dl.pc \in {"done", "raised", "cancelled"} /\ dl.late_calls < MaxLate

LateFinalize ==
    /\ CanCallLate
    /\ dl' = call_finalize(dl)
    /\ UNCHANGED <<fs, cwd, cvars, xvars>>

LateHandleData ==
    /\ CanCallLate
    /\ \E len \in {0, 1} : dl' = call_handle_data(dl, len)
    /\ UNCHANGED <<fs, cwd, cvars, xvars>>

NextValidator == NextDownload \/ LateFinalize \/ LateHandleData

(***************************************************************************)
(* RepoSyncConduit                                                         *)
(***************************************************************************)
Units == {"u1", "u2"}

Threads == 1..NumThreads

\* RepoSyncConduit.__init__: self._removed_count = 0; the mixin's counters
RepoSyncConduit_init == [removed_count |-> 0, added_count |-> 0, updated_count |-> 0]

\* pulp.plugins.model.SyncReport(success_flag, added, updated, removed, ...)
SyncReport(success_flag, added_count, updated_count, removed_count) ==
    [success_flag |-> success_flag,
     added_count |-> added_count,
     updated_count |-> updated_count,
     removed_count |-> removed_count,
     canceled_flag |-> FALSE]

build_success_report(c) ==
    SyncReport(TRUE, c.added_count, c.updated_count, c.removed_count)

build_failure_report(c) ==
    SyncReport(FALSE, c.added_count, c.updated_count, c.removed_count)

build_cancel_report(c) ==
    [SyncReport(FALSE, c.added_count, c.updated_count, c.removed_count)
        EXCEPT !.canceled_flag = TRUE]

\* association manager, unassociate_unit_by_id: removes the association owned
\* by this importer if there is one, and has no effect if there is none
unassociate_unit_by_id(a, u) == a \ {u}

\* the exception remove_unit raises for an error e of the association manager
ImporterConduitException(e) == [type |-> "ImporterConduitException", cause |-> e]

IdleThread == [pc |-> "idle", unit |-> "u1", tmp |-> 0,
               was_assoc |-> FALSE, exc |-> NoneV, ids |-> {}]

\* nothing has been called yet
NoHist == [calls |-> 0, returned |-> 0, raised |-> 0, unassociated |-> 0,
           counted |-> 0, existing |-> 0]

InitConduit ==
    /\ conduit = RepoSyncConduit_init
    /\ assoc \in SUBSET Units
    /\ th = [t \in Threads |-> IdleThread]
    /\ report = NoneV
    /\ hist = NoHist

CanCall(t) == th[t].pc = "idle" /\ hist.calls < MaxCalls

\* a thread enters remove_unit(unit)
RemoveUnitCall(t) ==
    /\ CanCall(t)
    /\ \E u \in Units :
          th' = [th EXCEPT ![t] = [IdleThread EXCEPT !.pc = "unassociate",
                                                     !.unit = u]]
    /\ hist' = [hist EXCEPT !.calls = @ + 1, !.counted = @ + 1]
    /\ UNCHANGED <<conduit, assoc, report, dlvars, xvars>>

\* self._association_manager.unassociate_unit_by_id(...) returns
RemoveUnitUnassociate(t) ==
    /\ th[t].pc = "unassociate"
    /\ assoc' = unassociate_unit_by_id(assoc, th[t].unit)
    /\ th' = [th EXCEPT ![t].pc = "load", ![t].was_assoc = th[t].unit \in assoc]
    /\ hist' = [hist EXCEPT !.unassociated = @ + Cardinality(assoc \ assoc')]
    /\ UNCHANGED <<conduit, report, dlvars, xvars>>

\* ... or raises: "except Exception, e: raise ImporterConduitException(e)"
RemoveUnitFails(t) ==
    /\ th[t].pc = "unassociate"
    /\ th' = [th EXCEPT ![t] = [IdleThread EXCEPT
                            !.exc = Some(ImporterConduitException("ManagerError"))]]
    /\ hist' = [hist EXCEPT !.raised = @ + 1]
    /\ UNCHANGED <<conduit, assoc, report, dlvars, xvars>>

\* self._removed_count += 1, first half: the attribute is loaded
RemoveUnitLoad(t) ==
    /\ th[t].pc = "load"
    /\ th' = [th EXCEPT ![t].pc = "store", ![t].tmp = conduit.removed_count]
    /\ UNCHANGED <<conduit, assoc, report, hist, dlvars, xvars>>

\* self._removed_count += 1, second half: the sum is stored; the call returns
RemoveUnitStore(t) ==
    /\ th[t].pc = "store"
    /\ conduit' = [conduit EXCEPT !.removed_count = th[t].tmp + 1]
    /\ th' = [th EXCEPT ![t] = IdleThread]
    /\ hist' = [hist EXCEPT !.returned = @ + 1]
    /\ UNCHANGED <<assoc, report, dlvars, xvars>>

\* AddUnitMixin.save_unit: the unit is created or updated, counted, and
\* associated with the repository
SaveUnit(t) ==
    /\ CanCall(t)
    /\ \E u \in Units :
          /\ conduit' = IF u \in assoc
                        THEN [conduit EXCEPT !.updated_count = @ + 1]
                        ELSE [conduit EXCEPT !.added_count = @ + 1]
          /\ assoc' = assoc \cup {u}
    /\ th' = [th EXCEPT ![t] = IdleThread]
    /\ hist' = [hist EXCEPT !.calls = @ + 1, !.counted = @ + 1]
    /\ UNCHANGED <<report, dlvars, xvars>>

BuildReport(t) ==
    /\ CanCall(t)
    /\ \E r \in {build_success_report(conduit), build_failure_report(conduit),
                 build_cancel_report(conduit)} :
          report' = Some([kind |-> IF r.success_flag THEN "success"
                                   ELSE IF r.canceled_flag THEN "cancel"
                                   ELSE "failure",
                          sync_report |-> r,
                          counters |-> conduit,
                          existing |-> hist.existing])
    /\ th' = [th EXCEPT ![t] = IdleThread]
    /\ hist' = [hist EXCEPT !.calls = @ + 1]
    /\ UNCHANGED <<conduit, assoc, dlvars, xvars>>

\* a thread enters associate_existing(unit_type_id, search_dicts)
AssociateExistingCall(t) ==
    /\ CanCall(t)
    /\ th' = [th EXCEPT ![t] = [IdleThread EXCEPT !.pc = "query"]]
    /\ hist' = [hist EXCEPT !.calls = @ + 1]
    /\ UNCHANGED <<conduit, assoc, report, dlvars, xvars>>

\* unit_ids = self._content_query_manager.get_content_unit_ids(...)
AssociateExistingQuery(t) ==
    /\ th[t].pc = "query"
    /\ \E ids \in SUBSET Units :
          th' = [th EXCEPT ![t].pc = "associate", ![t].ids = ids]
    /\ UNCHANGED <<conduit, assoc, report, hist, dlvars, xvars>>

\* mutant: the units associated are counted as added
AssociateExistingAssociate_counts(t) ==
    /\ th[t].pc = "associate"
    /\ assoc' = assoc \cup th[t].ids
    /\ conduit' = [conduit EXCEPT !.added_count = @ + Cardinality(th[t].ids)]
    /\ th' = [th EXCEPT ![t] = IdleThread]
    /\ hist' = [hist EXCEPT !.existing = @ + Cardinality(th[t].ids \ assoc)]
    /\ UNCHANGED <<report, dlvars, xvars>>

\* self._association_manager.associate_all_by_ids(...) returns; so does the call
AssociateExistingAssociate(t) ==
    /\ th[t].pc = "associate"
    /\ assoc' = assoc \cup th[t].ids
    /\ th' = [th EXCEPT ![t] = IdleThread]
    /\ hist' = [hist EXCEPT !.existing = @ + Cardinality(th[t].ids \ assoc)]
    /\ UNCHANGED <<conduit, report, dlvars, xvars>>

\* either manager raises: associate_existing has no try, the error leaves
\* the call as it is
AssociateExistingFails(t) ==
    /\ th[t].pc \in {"query", "associate"}
    /\ th' = [th EXCEPT ![t] = [IdleThread EXCEPT
                            !.exc = Some([type |-> "ManagerError", cause |-> ""])]]
    /\ UNCHANGED <<conduit, assoc, report, hist, dlvars, xvars>>

NextConduit ==
    \E t \in Threads :
        \/ AssociateExistingCall(t)
        \/ AssociateExistingQuery(t)
        \/ AssociateExistingAssociate(t)
        \/ AssociateExistingFails(t)
        \/ RemoveUnitCall(t)
        \/ RemoveUnitUnassociate(t)
        \/ RemoveUnitFails(t)
        \/ RemoveUnitLoad(t)
        \/ RemoveUnitStore(t)
        \/ SaveUnit(t)
        \/ BuildReport(t)

\* a downloader that is constructed and never run
IdleDownloader ==
    FileDownloader_init("file:///tmp/a", NoneV, [a \in Algs |-> NoneV], <<"srv">>)

\* no call of Repository.from_repo is made
IdleData ==
    [pc |-> "idle",
     repo |-> [id |-> "", display_name |-> NoneV, description |-> NoneV,
               notes |-> NoneV],
     r |-> NoneV,
     ret |-> NoneV]

\* the conduit specification starts from one constructed, idle downloader
InitSync ==
    /\ InitConduit
    /\ cwd = <<"srv">>
    /\ dl = IdleDownloader
    /\ fs = [p \in Paths |-> MissingFile]
    /\ dl2 = IdleDownloader
    /\ data = IdleData

SpecConduit == InitSync /\ [][NextConduit]_vars

\* the downloader specification starts from a conduit nobody calls
InitDownload ==
    /\ InitDownloader
    /\ conduit = RepoSyncConduit_init
    /\ assoc = {}
    /\ th = [t \in Threads |-> IdleThread]
    /\ report = NoneV
    /\ hist = NoHist
    /\ dl2 = IdleDownloader
    /\ data = IdleData

SpecDownload == InitDownload /\ [][NextDownload]_vars

SpecValidator == InitDownload /\ [][NextValidator]_vars

(***************************************************************************)
(* Two downloader instances run as concurrent tasks of one event loop: a   *)
(* step of either runs from one await to the next                          *)
(***************************************************************************)
TwoSizes == {0, ChunkSize + 1, (MaxChunks - 1) * ChunkSize + 402848}

Start2 ==
    /\ dl2.pc = "created"
    /\ dl2' = [dl2 EXCEPT !.pc = "opening"]
    /\ UNCHANGED <<dlvars, cvars, data>>

Open2 ==
    /\ dl2.pc = "opening"
    /\ dl2' = run_open(dl2, fs, cwd)
    /\ UNCHANGED <<dlvars, cvars, data>>

\* mutant: the two instances read through one shared file position
Iterate2_shared ==
    /\ dl2.pc = "reading"
    /\ \E fault \in Faults : dl2' = run_iteration(dl2, fs, fault)
    /\ dl' = IF dl.pc = "reading" THEN [dl EXCEPT !.offset = dl2'.offset] ELSE dl
    /\ UNCHANGED <<fs, cwd, cvars, data>>

Iterate2 ==
    /\ dl2.pc = "reading"
    /\ \E fault \in Faults : dl2' = run_iteration(dl2, fs, fault)
    /\ UNCHANGED <<dlvars, cvars, data>>

Cancel2 ==
    /\ dl2.pc = "reading"
    /\ dl2' = run_cancel(dl2)
    /\ UNCHANGED <<dlvars, cvars, data>>

NextTwo == Start \/ Open \/ Iterate \/ Cancel \/ Start2 \/ Open2 \/ Iterate2 \/ Cancel2

InitTwo ==
    /\ cwd = <<"srv">>
    /\ \E n1 \in TwoSizes, n2 \in TwoSizes, st \in {"file", "missing"} :
          /\ fs = [p \in Paths |->
                      IF p = Locate("file:///tmp/a", cwd)
                      THEN [exists |-> TRUE, readable |-> TRUE, size |-> n1]
                      ELSE IF p = Locate("file:///tmp/../etc/./b", cwd) /\ st = "file"
                      THEN [exists |-> TRUE, readable |-> TRUE, size |-> n2]
                      ELSE MissingFile]
          /\ \E e1 \in {NoneV, Some(n1), Some(n1 + 1)} :
                dl = FileDownloader_init("file:///tmp/a", e1,
                                         [a \in Algs |-> NoneV], cwd)
          /\ \E u2 \in {"file://host/tmp/a", "file:///tmp/../etc/./b"},
                e2 \in {NoneV, Some(n2)} :
                dl2 = FileDownloader_init(u2, e2, [a \in Algs |-> NoneV], cwd)
    /\ conduit = RepoSyncConduit_init
    /\ assoc = {}
    /\ th = [t \in Threads |-> IdleThread]
    /\ report = NoneV
    /\ hist = NoHist
    /\ data = IdleData

SpecTwo == InitTwo /\ [][NextTwo]_vars

(***************************************************************************)
(* Repository.from_repo (pulp/server/content/plugins/data.py)              *)
(***************************************************************************)
RepoIds == {"repo-1", "repo-2", "repo-3"}

Texts == {NoneV, Some("a"), Some("b")}

\* the database dicts passed to from_repo
Repos == [id : RepoIds, display_name : Texts, description : Texts, notes : Texts]

\* from_repo(cls, repo): r is built and filled in; the function ends without
\* a return statement, so the call evaluates to None
from_repo(repo) ==
    LET r == [id |-> repo.id,
              display_name |-> repo.display_name,
              description |-> repo.description,
              notes |-> repo.notes]
    IN [r |-> Some(r), ret |-> NoneV]

FromRepo ==
    /\ data.pc = "called"
    /\ data' = [data EXCEPT !.pc = "returned",
                            !.r = from_repo(data.repo).r,
                            !.ret = from_repo(data.repo).ret]
    /\ UNCHANGED <<dlvars, cvars, dl2>>

NextData == FromRepo

InitData ==
    /\ \E repo \in Repos : data = [IdleData EXCEPT !.pc = "called", !.repo = repo]
    /\ cwd = <<"srv">>
    /\ dl = IdleDownloader
    /\ dl2 = IdleDownloader
    /\ fs = [p \in Paths |-> MissingFile]
    /\ conduit = RepoSyncConduit_init
    /\ assoc = {}
    /\ th = [t \in Threads |-> IdleThread]
    /\ report = NoneV
    /\ hist = NoHist

SpecData == InitData /\ [][NextData]_vars

\* the run of a downloader constructed like s, executed alone to its end
\* with no I/O error and no cancellation
RECURSIVE RunToEnd(_, _)
RunToEnd(s, files) ==
    IF s.pc = "reading" THEN RunToEnd(run_iteration(s, files, "none"), files) ELSE s

Solo(s, files) ==
    LET s0 == FileDownloader_init(s.url, s.expected_size, s.expected_digests,
                                  s.constructed_in)
    IN RunToEnd(run_open([s0 EXCEPT !.pc = "opening"], files, s.constructed_in), files)

(***************************************************************************)
(* Properties of RepoSyncConduit                                           *)
(***************************************************************************)
AllReturned == \A t \in Threads : th[t].pc = "idle"

\* C1: whatever the interleaving of the threads' remove_unit calls, once
\* every call has returned the conduit's removed count is the number of
\* remove_unit calls that returned without raising.
C1_NoLostIncrement ==
    AllReturned => conduit.removed_count = hist.returned

\* C6: a remove_unit call for a unit that has no association owned by this
\* importer has no effect: when it returns, the removed count is what it was.
C6_RemoveAbsentHasNoEffect ==
    [][\A t \in Threads :
          (th[t].pc = "store" /\ th'[t].pc = "idle" /\ ~th[t].was_assoc)
              => conduit'.removed_count = conduit.removed_count]_vars

C7_Report ==
    report # NoneV =>
        LET r == report[1].sync_report
            c == report[1].counters
        IN /\ r.added_count = c.added_count
           /\ r.updated_count = c.updated_count
           /\ r.removed_count = c.removed_count
           /\ r.success_flag <=> report[1].kind = "success"
           /\ r.canceled_flag <=> report[1].kind = "cancel"

\* C7: each build_*_report returns the conduit's counters of that moment,
\* with the flags of its kind, and leaves the counters unchanged; the removed
\* count starts at 0 and is the number of associations the conduit has
\* removed so far.
C7_ReportsCarryCounters ==
    /\ [](C7_Report)
    /\ [](hist.calls = 0 => conduit.removed_count = 0)
    /\ [](AllReturned => conduit.removed_count = hist.unassociated)
    /\ [][report' # report => conduit' = conduit]_vars

(***************************************************************************)
(* Properties of FileDownloader.run                                        *)
(***************************************************************************)
Terminated == dl.pc \in {"done", "raised", "cancelled"}

\* the file the run has open (or had open)
OpenedFile == fs[dl.opened[1]]

\* C2: a run that reaches exhaustion calls finalize() exactly once, after
\* every chunk read has been fed to handle_data; a run that ends before
\* exhaustion never calls finalize().
C2_FinalizeOnceAfterLastChunk ==
    /\ dl.finalize_calls <= 1
    /\ dl.exhausted =>
          /\ dl.finalize_calls = 1
          /\ dl.fed_at_finalize = Len(dl.fed)
          /\ Len(dl.fed) = Len(dl.reads) - 1
          /\ Total(dl.fed) = OpenedFile.size
    /\ ~dl.exhausted => dl.finalize_calls = 0
    /\ (Terminated /\ dl.pc # "cancelled" /\ dl.raised = <<>>) => dl.exhausted

C2_Witness ==
    /\ dl.pc = "done"
    /\ dl.exhausted
    /\ Len(dl.fed) = 3
    /\ dl.finalize_calls = 1

\* C3: once run has terminated after a successful open, by return, by an
\* exception from read, handle_data or finalize, or by cancellation at a
\* read, the file handle is closed.
C3_HandleReleased ==
    /\ Terminated => dl.handle # "open"
    /\ (Terminated /\ dl.opened # NoneV) => dl.handle = "closed"
    /\ dl.handle = "open" <=> dl.pc = "reading"

C3_Witness ==
    /\ dl.pc = "cancelled"
    /\ dl.opened # NoneV
    /\ Len(dl.fed) >= 1
    /\ dl.handle = "closed"

\* C4: an error raised while opening, reading, ingesting or finalizing
\* reaches the caller, is not turned into a normal return, carries the
\* downloader's url and keeps its kind.
C4_ErrorsPropagateWithUrl ==
    /\ dl.raised # <<>> =>
          /\ dl.pc = "raised"
          /\ Len(dl.raised) = 1
          /\ dl.results = <<>>
          /\ dl.error # NoneV
          /\ dl.error[1].url = dl.url
          /\ dl.error[1].kind = dl.raised[1]
    /\ dl.pc = "raised" => dl.raised # <<>>
    /\ dl.vstate = "Failed" => dl.raised = <<"ValidationMismatchError">>

C4_Witness ==
    /\ dl.pc = "raised"
    /\ dl.raised = <<"ValidationMismatchError">>
    /\ dl.error = Some([kind |-> "ValidationMismatchError", url |-> dl.url,
                        filename |-> NoneV])

\* C5 (as claimed): every run, successful or failed, produces exactly one
\* DownloadResult; a run that fails validation produces one carrying the
\* error and the digests computed so far.
C5_OneResultPerRun ==
    dl.pc \in {"done", "raised"} =>
        /\ Len(dl.results) = 1
        /\ dl.vstate = "Failed" =>
              /\ dl.results[1].exception = dl.error
              /\ dl.results[1].artifact_attributes = artifact_attributes(dl)

\* C5 (amended): at most one DownloadResult is produced per run; a run that
\* returns produces exactly one, with no error; a run that fails, a failed
\* validation included, produces none and raises the error instead.
C5_ResultOnlyOnSuccess ==
    /\ Len(dl.results) <= 1
    /\ dl.pc = "done" =>
          /\ Len(dl.results) = 1
          /\ dl.results[1].exception = NoneV
          /\ dl.vstate = "Finalized"
    /\ dl.pc # "done" => dl.results = <<>>
    /\ dl.vstate = "Failed" =>
          /\ dl.pc = "raised"
          /\ dl.error # NoneV
          /\ dl.error[1].kind = "ValidationMismatchError"

C5_Witness ==
    /\ dl.pc = "raised"
    /\ dl.vstate = "Failed"
    /\ dl.mismatches # {}
    /\ dl.size > ChunkSize
    /\ dl.results = <<>>

\* no "." or ".." component is left in a path
Normalized(p) == \A i \in 1..Len(p.parts) : p.parts[i] \notin {".", "..", ""}

C8_Result ==
    dl.pc = "done" =>
        LET r == dl.results[1] IN
        /\ r.path.abs
        /\ Normalized(r.path)
        /\ r.path = Locate(dl.url, dl.constructed_in)
        /\ r.path = dl.opened[1]
        /\ r.url = dl.url
        /\ r.exception = NoneV

C9_SizeIsSumOfChunks ==
    /\ Contiguous(dl.fed)
    /\ \A i \in 1..Len(dl.fed) : dl.fed[i][2] > 0
    /\ dl.size = Total(dl.fed)
    /\ dl.pc = "reading" => Total(dl.fed) = dl.offset
    /\ dl.pc = "done" =>
          /\ dl.results[1].artifact_attributes.size = Total(dl.fed)
          /\ dl.results[1].artifact_attributes.size = OpenedFile.size

C9_Witness ==
    /\ dl.pc = "done"
    /\ dl.fed = <<<<0, ChunkSize>>, <<ChunkSize, ChunkSize>>, <<2 * ChunkSize, 402848>>>>
    /\ dl.results[1].artifact_attributes.size = 2500000

\* C10 (as claimed): a completed run over N bytes performs exactly
\* ceil(N / ChunkSize) reads, each of at most ChunkSize bytes; 2,500,000 bytes
\* are read in exactly the 3 reads 1048576, 1048576, 402848.
C10_ReadCount ==
    dl.pc = "done" =>
        /\ Len(dl.reads) = CeilDiv(OpenedFile.size, ChunkSize)
        /\ \A i \in 1..Len(dl.reads) : dl.reads[i] <= ChunkSize
        /\ OpenedFile.size = 2500000 =>
              /\ dl.reads = <<1048576, 1048576, 402848>>
              /\ dl.size = 2500000

\* C10 (amended): a completed run over N bytes performs exactly
\* ceil(N / ChunkSize) reads that return data, each of at most ChunkSize
\* bytes, followed by exactly one read that returns nothing, the exhaustion
\* signal: ceil(N / ChunkSize) + 1 reads in all.  2,500,000 bytes are read
\* as 1048576, 1048576, 402848 and then an empty read; the size is 2,500,000.
C10_DataReadsThenEmptyRead ==
    dl.pc = "done" =>
        LET n == Len(dl.reads) IN
        /\ n = CeilDiv(OpenedFile.size, ChunkSize) + 1
        /\ dl.reads[n] = 0
        /\ \A i \in 1..(n - 1) : dl.reads[i] \in 1..ChunkSize
        /\ OpenedFile.size = 2500000 =>
              /\ dl.reads = <<1048576, 1048576, 402848, 0>>
              /\ dl.size = 2500000

C10_Witness ==
    /\ dl.pc = "done"
    /\ OpenedFile.size = 2500000
    /\ Len(dl.reads) = 4

\* C11: running a downloader whose resolved path does not exist raises
\* NotFoundError, kept in kind, annotated with the url and naming the path
\* that was requested; no chunk is ingested, finalize() is not called and no
\* DownloadResult is returned.
C11_MissingFileRaisesNotFound ==
    (Terminated /\ ~fs[Locate(dl.url, dl.constructed_in)].exists) =>
        /\ dl.pc = "raised"
        /\ dl.raised = <<"NotFoundError">>
        /\ dl.error # NoneV
        /\ dl.error[1].kind = "NotFoundError"
        /\ dl.error[1].url = dl.url
        /\ dl.error[1].filename = Some(Locate(dl.url, dl.constructed_in))
        /\ dl.reads = <<>>
        /\ dl.fed = <<>>
        /\ dl.size = 0
        /\ dl.finalize_calls = 0
        /\ dl.results = <<>>
        /\ dl.handle = "none"

C11_Witness ==
    /\ dl.pc = "raised"
    /\ dl.url = "file:///tmp/../etc/./b"
    /\ ~fs[Locate(dl.url, dl.constructed_in)].exists
    /\ dl.error[1].kind = "NotFoundError"
    /\ dl.error[1].filename = Some([abs |-> TRUE, parts |-> <<"etc", "b">>])

Frozen(s) == <<s.vstate, s.size, s.fed, s.mismatches, artifact_attributes(s)>>

\* C12: Finalized and Failed are terminal.  A finalize() made in either of
\* them fails with InvalidStateError, whatever the first finalize() found;
\* an ingest of a chunk made in either of them fails with InvalidStateError;
\* a rejected call leaves the state, digests, size and mismatches as they were.
C12_TerminalStatesReject ==
    [][/\ dl.vstate # "Open" => dl'.vstate = dl.vstate
       /\ (dl.vstate # "Open" /\ dl'.late_calls > dl.late_calls) =>
             /\ dl'.late[1].op = "finalize" =>
                   dl'.late[1].outcome = "InvalidStateError"
             /\ (dl'.late[1].op = "handle_data" /\ dl'.late[1].len > 0) =>
                   dl'.late[1].outcome = "InvalidStateError"
       /\ (dl'.late_calls > dl.late_calls
              /\ dl'.late[1].outcome = "InvalidStateError") =>
             /\ dl.vstate # "Open"
             /\ Frozen(dl') = Frozen(dl)]_vars

C12_Witness ==
    /\ dl.vstate = "Failed"
    /\ dl.size > ChunkSize
    /\ dl.late_calls = 2
    /\ dl.late = Some([op |-> "finalize", len |-> 0, outcome |-> "InvalidStateError"])
    /\ dl.finalize_calls = 2

\* what the caller declared
WrongSize == dl.expected_size # NoneV /\ dl.expected_size # Some(OpenedFile.size)

NoSize == dl.expected_size = NoneV

WrongDigests == {a \in Algs : dl.expected_digests[a] = Some(BogusDigest(a))}

DeclaredDigests == {a \in Algs : dl.expected_digests[a] # NoneV}

\* C13: the validation made when the source is exhausted reports every
\* mismatch: a wrong size and one wrong digest give two entries; a wrong
\* digest for one algorithm and a right one for the other give exactly one
\* entry, naming the wrong one; with nothing declared validation succeeds.
C13_AllMismatchesReported ==
    dl.exhausted =>
        /\ dl.mismatches = {p \in {"size"} : WrongSize} \cup WrongDigests
        /\ dl.vstate = IF dl.mismatches = {} THEN "Finalized" ELSE "Failed"
        /\ (WrongSize /\ Cardinality(WrongDigests) = 1) =>
              Cardinality(dl.mismatches) = 2
        /\ \A a \in Algs :
              (WrongDigests = {a} /\ DeclaredDigests = Algs /\ ~WrongSize) =>
                  dl.mismatches = {a}
        /\ (NoSize /\ DeclaredDigests = {}) =>
              (dl.mismatches = {} /\ dl.pc = "done")

C13_Witness ==
    /\ dl.exhausted
    /\ WrongSize
    /\ WrongDigests = {"md5"}
    /\ DeclaredDigests = Algs
    /\ dl.mismatches = {"size", "md5"}
    /\ dl.size = 2500000

IsPrefix(a, b) == Len(a) <= Len(b) /\ SubSeq(b, 1, Len(a)) = a

\* what one run has in common, so far, with the same run executed alone
SameAsAlone(s) ==
    LET a == Solo(s, fs) IN
    /\ IsPrefix(s.fed, a.fed)
    /\ IsPrefix(s.reads, a.reads)
    /\ s.size = Total(s.fed)
    /\ (s.exhausted \/ (s.opened = NoneV /\ s.pc = "raised")) => s = a
    /\ s.results # <<>> => s.results = a.results

C15_FromRepoReturnsInstance ==
    data.pc = "returned" =>
        /\ data.ret # NoneV
        /\ data.ret[1].id = data.repo.id
        /\ data.ret[1].display_name = data.repo.display_name
        /\ data.ret[1].description = data.repo.description
        /\ data.ret[1].notes = data.repo.notes

RemoveUnitRaised(t) == th[t].pc = "unassociate" /\ th'[t].pc = "idle"

RemoveUnitReturned(t) == th[t].pc = "store" /\ th'[t].pc = "idle"

\* C16: when the association manager raises, remove_unit raises
\* ImporterConduitException wrapping the error and the removed count stays;
\* the removed count changes only by one, when a remove_unit call returns,
\* and it never decreases.
C16_RemovedCountMonotonic ==
    [][/\ \A t \in Threads :
            RemoveUnitRaised(t) =>
                /\ th'[t].exc = Some(ImporterConduitException("ManagerError"))
                /\ conduit'.removed_count = conduit.removed_count
       /\ conduit'.removed_count # conduit.removed_count =>
            /\ conduit'.removed_count = conduit.removed_count + 1
            /\ \E t \in Threads : RemoveUnitReturned(t)
       /\ conduit'.removed_count >= conduit.removed_count]_vars

InAssociateExisting(t) == th[t].pc \in {"query", "associate"}

ZeroCounts(c) == c.added_count = 0 /\ c.updated_count = 0 /\ c.removed_count = 0

\* C18: no step of associate_existing, returning or raising, changes the
\* added, updated or removed counter; a report built after it alone shows
\* none of the units it associated; an error of its collaborators leaves
\* the call as raised, not as ImporterConduitException.
C18_AssociateExistingKeepsCounters ==
    /\ [][\A t \in Threads :
            (InAssociateExisting(t) /\ th'[t] # th[t]) =>
                /\ conduit' = conduit
                /\ th'[t].exc # NoneV =>
                      th'[t].exc = Some([type |-> "ManagerError", cause |-> ""])]_vars
    /\ [](hist.counted = 0 =>
            /\ ZeroCounts(conduit)
            /\ report # NoneV => ZeroCounts(report[1].sync_report))

C18_Witness ==
    /\ hist.counted = 0
    /\ assoc = Units
    /\ report # NoneV
    /\ report[1].existing >= 1
    /\ ZeroCounts(report[1].sync_report)
    /\ \E t \in Threads : th[t].exc = Some([type |-> "ManagerError", cause |-> ""])

\* C17: run never passes an empty chunk to handle_data and never calls
\* handle_data after finalize(), so it never meets the validator's
\* InvalidStateError; an empty read only ends the loop: it is the last read.
C17_EmptyReadOnlyEndsLoop ==
    /\ dl.hd_empty = 0
    /\ dl.hd_calls = Len(dl.fed)
    /\ ~dl.invalid_state
    /\ "InvalidStateError" \notin {dl.raised[i] : i \in 1..Len(dl.raised)}
    /\ dl.finalize_calls > 0 => dl.fed_at_finalize = Len(dl.fed)
    /\ \A i \in 1..Len(dl.reads) :
          dl.reads[i] = 0 => (i = Len(dl.reads) /\ dl.pc # "reading")
    /\ dl.exhausted <=> (dl.reads # <<>> /\ dl.reads[Len(dl.reads)] = 0)
    /\ dl.pc = "reading" => dl.vstate = "Open"

C17_Witness ==
    /\ dl.exhausted
    /\ dl.reads = <<ChunkSize, 1, 0>>
    /\ dl.hd_calls = 2
    /\ dl.hd_empty = 0
    /\ dl.finalize_calls = 1

====
